---- MODULE Spec2Model ----
(***************************************************************************)
(* Metrics aggregation and report-content decision engine of the           *)
(* performance-report generator (confluenceReportGenerator.js and the      *)
(* endpoint table of fetchdatadogmetrics.js).                               *)
(*                                                                         *)
(* Units.  Latencies are whole milliseconds, error rates are hundredths of *)
(* a percent (the two decimals of toFixed(2)), formatted seconds are       *)
(* hundredths of a second, timestamps are epoch milliseconds.              *)
(***************************************************************************)
EXTENDS Integers, Sequences, FiniteSets, TLC

\* ------------------------------------------------------------------ bounds
MaxRestarts == 3   \* largest restart count a pod reports
MaxMetrics  == 2   \* largest number of endpoint rows in the payload
MaxSeries   == 2   \* largest number of restart series in one classification
MaxCounter  == 2   \* largest restart counter value of a sample

\* --------------------------------------------------------- JavaScript values
\* NaN, the result of parseFloat / parseInt on a string with no leading number.
NaN == -1
\* The 'N/A' string the endpoint table writes for a missing latency.
NA == -1
\* The dash the endpoint table writes for an error count of 0.
Dash == -2

\* parseFloat of a latency / error-rate field: 'N/A' has no leading number.
ParseFloat(s) == IF s = NA THEN NaN ELSE s
\* parseInt(m.errors || 0): the dash has no leading digits.
ParseInt(s) == IF s = Dash THEN NaN ELSE s
\* a > b in JavaScript: every comparison with NaN is false.
Gt(a, b) == a # NaN /\ b # NaN /\ a > b

\* x / d rounded to the nearest integer (toFixed rounding of a quotient).
RoundDiv(x, d) == (2 * x + d) \div (2 * d)
\* (ms / 1000).toFixed(2), in hundredths of a second.
ToFixed2Seconds(ms) == RoundDiv(ms, 10)

RECURSIVE SumSeq(_)
SumSeq(s) == IF s = <<>> THEN 0 ELSE Head(s) + SumSeq(Tail(s))

\* Array.prototype.push of several items
PushFront(arr, items) == items \o arr
Push(arr, items) == arr \o items

\* ---------------------------------------------------------------- severity
Rank(s) == CASE s = "good" -> 0 [] s = "warning" -> 1 [] s = "critical" -> 2
\* overallStatus === 'good' ? 'warning' : overallStatus
AtLeastWarning(s) == IF s = "good" THEN "warning" ELSE s

\* ------------------------------------------------- restart-timing classifier
PodNames == {"p1", "p2"}
NoMatch == "nomatch"          \* an expression without pod_name:<name>
Timestamps == {-1000, 0, 1000}
WindowStarts == {60000}       \* timeSeries.restarts.from_date

NullTime == [isNull |-> TRUE, ts |-> 0]
TimeOf(t) == [isNull |-> FALSE, ts |-> t]
\* if (latestRestartTime): null is falsy, and so is the number 0
Truthy(t) == ~t.isNull /\ t.ts # 0

\* restartDate.toLocaleString(... second: '2-digit' ...): second resolution
FormatSecond(t) == t \div 1000
\* monitoringStart.toLocaleString(... minute: '2-digit' ...): minute resolution
FormatMinute(t) == t \div 60000

\* the for loop over points[1..]: the timestamp of the last sample that
\* exceeded the running maximum
RECURSIVE ScanPoints(_, _, _, _)
ScanPoints(points, i, maxValue, latest) ==
    IF i > Len(points) THEN latest
    ELSE IF points[i][2] > maxValue
         THEN ScanPoints(points, i + 1, points[i][2], TimeOf(points[i][1]))
         ELSE ScanPoints(points, i + 1, maxValue, latest)

LatestRestartTime(points) == ScanPoints(points, 2, points[1][2], NullTime)

DuringEntry(t) == [exactTime |-> [kind |-> "At", at |-> FormatSecond(t)],
                   duringWindow |-> TRUE]
BeforeEntry(start) == [exactTime |-> [kind |-> "Before", at |-> FormatMinute(start)],
                       duringWindow |-> FALSE]

\* restartTiming[podName] = entry
SetEntry(timing, podName, entry) ==
    [p \in (DOMAIN timing) \cup {podName} |->
        IF p = podName THEN entry ELSE timing[p]]

\* else if (startValue > 0)
StartedAboveZeroOrAtZero(startValue) == startValue >= 0
StartedAboveZero(startValue) == startValue > 0

\* one iteration of the loop over restartSeries
ProcessSeries(timing, series, monitoringStart) ==
    IF series.pod \in PodNames /\ Len(series.pointlist) > 0
    THEN LET points == series.pointlist
             startValue == points[1][2]
             latestRestartTime == LatestRestartTime(points)
         IN  IF Truthy(latestRestartTime)
             THEN SetEntry(timing, series.pod, DuringEntry(latestRestartTime.ts))
             ELSE IF StartedAboveZero(startValue)
                  THEN SetEntry(timing, series.pod, BeforeEntry(monitoringStart))
                  ELSE timing
    ELSE timing

EmptyTiming == [p \in {} |-> 0]

RECURSIVE FoldSeries(_, _, _)
FoldSeries(timing, seriesList, monitoringStart) ==
    IF seriesList = <<>> THEN timing
    ELSE FoldSeries(ProcessSeries(timing, Head(seriesList), monitoringStart),
                    Tail(seriesList), monitoringStart)

\* podMetricsData.timeSeries.restarts.series present or not
analyzeRestartTiming(podMetricsData) ==
    IF podMetricsData.hasTimeSeries
    THEN FoldSeries(EmptyTiming, podMetricsData.series, podMetricsData.from_date)
    ELSE EmptyTiming

\* ------------------------------------------------------ root-cause selector
OOMText      == "High memory usage detected - likely OOM (Out of Memory) kills"
ErrorsText   == "Correlated with N application errors - likely application-level failures"
FrequentText == "Frequent restarts suggest health check failures or application instability"
MultipleText == "Multiple pods affected - indicates service-level instability"
MonitorText  == "Monitor for patterns - may be related to deployment updates or transient issues"

Cause(text, n) == [text |-> text, count |-> n]

RECURSIVE TotalRestartsOf(_)
TotalRestartsOf(pods) ==
    IF pods = <<>> THEN 0 ELSE Head(pods).restarts + TotalRestartsOf(Tail(pods))

\* podsWithRestarts.some(pod => memMetrics?.find(m => m.podName === pod.podName)
\*                              ... podMemData.maxMemory > 90)
\* find returns the first entry of that pod
FirstMemoryOf(memMetrics, podName) ==
    LET hits == SelectSeq(memMetrics, LAMBDA m : m.podName = podName)
    IN  IF hits = <<>> THEN <<>> ELSE <<Head(hits)>>

HasHighMemory(podsWithRestarts, allData) ==
    /\ allData.podMetrics.hasContainerMetrics
    /\ \E i \in 1..Len(podsWithRestarts) :
          LET found == FirstMemoryOf(allData.podMetrics.containerMemory,
                                     podsWithRestarts[i].podName)
          IN  found # <<>> /\ found[1].maxMemory > 90

getMainRestartCauseErrorsFirst(podsWithRestarts, allData) ==
    LET totalRestarts == TotalRestartsOf(podsWithRestarts)
        hasHighErrors == allData.totalLogErrors > 0
    IN  IF hasHighErrors /\ totalRestarts > 1
        THEN Cause(ErrorsText, allData.totalLogErrors)
        ELSE IF HasHighMemory(podsWithRestarts, allData) THEN Cause(OOMText, 0)
        ELSE IF totalRestarts >= 3 THEN Cause(FrequentText, 0)
        ELSE IF Len(podsWithRestarts) > 1 THEN Cause(MultipleText, 0)
        ELSE Cause(MonitorText, 0)

getMainRestartCause(podsWithRestarts, allData) ==
    LET totalRestarts == TotalRestartsOf(podsWithRestarts)
        hasHighErrors == allData.totalLogErrors > 0
    IN  IF HasHighMemory(podsWithRestarts, allData) THEN Cause(OOMText, 0)
        ELSE IF hasHighErrors /\ totalRestarts > 1
             THEN Cause(ErrorsText, allData.totalLogErrors)
        ELSE IF totalRestarts >= 3 THEN Cause(FrequentText, 0)
        ELSE IF Len(podsWithRestarts) > 1 THEN Cause(MultipleText, 0)
        ELSE Cause(MonitorText, 0)

\* ------------------------------------------------- endpoint table (fetcher)
ErrorRateTruncated(requests, errorCount) ==
    IF requests > 0 THEN (errorCount * 10000) \div requests ELSE 0

\* line 305: requests > 0 ? ((errorCount / requests) * 100).toFixed(2) : '0.00',
\* in hundredths of a percent
ErrorRate(requests, errorCount) ==
    IF requests > 0 THEN RoundDiv(errorCount * 10000, requests) ELSE 0

\* line 308: totalTimeSeconds > 0 ? requests / totalTimeSeconds : 0, and its
\* toFixed(2) of line 316, in hundredths of a hit per second
ActualRate(requests, totalTimeSeconds) ==
    IF totalTimeSeconds > 0 THEN RoundDiv(requests * 100, totalTimeSeconds) ELSE 0

\* one row of tableData, from the per-resource aggregates
FetchRow(endpoint, requests, errorCount, p95) ==
    [resource_name |-> endpoint,
     requests      |-> requests,
     p95_latency   |-> IF p95 # 0 THEN p95 ELSE NA,
     errors        |-> IF errorCount > 0 THEN errorCount ELSE Dash,
     error_rate    |-> ErrorRate(requests, errorCount)]

\* --------------------------------------------------------- finding generator
\* pod.restarts && pod.restarts > 0 && (podTiming && podTiming.duringWindow !== false)
CountsAnyRestart(pod, restartTiming) ==
    pod.restarts > 0
CountsInWindow(pod, restartTiming) ==
    /\ pod.restarts > 0
    /\ pod.podName \in DOMAIN restartTiming
    /\ restartTiming[pod.podName].duringWindow # FALSE

PodsWithRestarts(podMetricsData) ==
    LET restartTiming == analyzeRestartTiming(podMetricsData)
    IN  SelectSeq(podMetricsData.podMetrics,
                  LAMBDA pod : CountsInWindow(pod, restartTiming))

\* overallStatus = totalRestarts >= 5 ? 'critical' : 'warning'
RestartSummaryStatus(totalRestarts) ==
    IF totalRestarts >= 5 THEN "critical" ELSE "warning"

\* overallStatus = 'warning' of the high-latency block
HighLatencyStatus(status) == "warning"

\* p95 > 1000
IsHighLatencyInclusive(m) ==
    ParseFloat(m.p95_latency) # NaN /\ ParseFloat(m.p95_latency) >= 1000
IsHighLatency(m) == Gt(ParseFloat(m.p95_latency), 1000)

\* parseInt(m.errors || 0) > 0
HasErrors(m) == Gt(ParseInt(m.errors), 0)

\* reduce((worst, current) => rate(current) > rate(worst) ? current : worst)
RECURSIVE LeastErrorRate(_, _)
LeastErrorRate(worst, rest) ==
    IF rest = <<>> THEN worst
    ELSE IF Gt(ParseFloat(worst.error_rate), ParseFloat(Head(rest).error_rate))
         THEN LeastErrorRate(Head(rest), Tail(rest))
         ELSE LeastErrorRate(worst, Tail(rest))
RECURSIVE WorstErrorRate(_, _)
WorstErrorRate(worst, rest) ==
    IF rest = <<>> THEN worst
    ELSE IF Gt(ParseFloat(Head(rest).error_rate), ParseFloat(worst.error_rate))
         THEN WorstErrorRate(Head(rest), Tail(rest))
         ELSE WorstErrorRate(worst, Tail(rest))

\* if (totalRestarts >= 5) critical; else if (totalRestarts >= 2) at least warning
RestartDetailStatusNoCritical(status, totalRestarts) ==
    IF totalRestarts >= 2 THEN AtLeastWarning(status) ELSE status
RestartDetailStatus(status, totalRestarts) ==
    IF totalRestarts >= 5 THEN "critical"
    ELSE IF totalRestarts >= 2 THEN AtLeastWarning(status)
    ELSE status

\* ------------------------------------------------------------------- state
VARIABLES
    data,             \* the report payload handed to the generator
    pc,               \* position inside analyzePerformanceData
    overallStatus,    \* let overallStatus
    findings,         \* const findings = []
    recommendations,  \* const recommendations = []
    observations,     \* result of generateSummaryObservations
    runNo,            \* which call of analyzePerformanceData is under way
    firstVerdict,     \* what the first call returned
    rtLen,            \* restartSeries.length of the classification under way
    rtPos,            \* number of series the classifier loop has processed
    rtCur,            \* the series of the latest loop iteration
    rtStart,          \* monitoringStart
    restartTiming,    \* const restartTiming = {}
    rtThrew,          \* the classifier loop was left by a TypeError
    causePods,        \* podsWithRestarts handed to the root-cause selector
    causeData,        \* allData handed to the root-cause selector
    causeOut,         \* the selector's return value
    aggSeries,        \* the series extractByResource is looking at
    aggType,          \* aggregationType
    aggOut,           \* what extractByResource did with the series
    rowIn,            \* per-resource aggregates and window of one table row
    rowOut,           \* the row fetchEndpointMetricsTable pushed
    maxRetries,       \* retryApiCall's maxRetries
    attempt,          \* retryApiCall's loop index i
    retryPhase,       \* where retryApiCall is
    retryDelays,      \* the delays retryApiCall has waited, in ms
    retryLog,         \* the errors retryApiCall has caught
    retryOut,         \* how retryApiCall settled
    podSection,       \* what generatePodMetricsSection rendered
    pipe,             \* the run of runAutomation
    upload,           \* the run of the uploader script and the wiki it talks to
    deployRun,        \* the run of the deploy script's runCommand
    kids              \* the all-services generator and its child processes

vars == <<data, pc, overallStatus, findings, recommendations, observations,
          runNo, firstVerdict,
          rtLen, rtPos, rtCur, rtStart, restartTiming, rtThrew,
          causePods, causeData, causeOut,
          aggSeries, aggType, aggOut, rowIn, rowOut,
          maxRetries, attempt, retryPhase, retryDelays, retryLog, retryOut,
          podSection, pipe, upload, deployRun, kids>>

genVars   == <<data, pc, overallStatus, findings, recommendations, observations>>
runVars   == <<runNo, firstVerdict>>
rtVars    == <<rtLen, rtPos, rtCur, rtStart, restartTiming, rtThrew>>
causeVars == <<causePods, causeData, causeOut>>
aggVars   == <<aggSeries, aggType, aggOut>>
rowVars   == <<rowIn, rowOut>>
retryVars == <<maxRetries, attempt, retryPhase, retryDelays, retryLog, retryOut>>
auxVars   == <<aggVars, rowVars, retryVars>>
sectionVars == <<podSection>>
opsVars   == <<pipe, upload, deployRun, kids>>

\* ----------------------------------------------------------------- payloads
SteadySeries == << <<0, 2>>, <<1000, 2>> >>   \* counter already at 2, no increase
RisingSeries == << <<0, 0>>, <<1000, 3>> >>   \* counter rises inside the window
SeriesKinds == {"none", "steady", "rising"}

SeriesOf(podName, kind) ==
    IF kind = "none" THEN <<>>
    ELSE <<[pod |-> podName,
            pointlist |-> IF kind = "steady" THEN SteadySeries ELSE RisingSeries]>>

Pod(podName, restarts, maxMemoryPct) ==
    [podName |-> podName, restarts |-> restarts, maxMemoryPct |-> maxMemoryPct]

\* per-resource aggregates <<requests, errorCount, p95>> the rows are built from
RowInputs == { <<100, 0, 1500>>, <<100, 1, 1000>>, <<50, 2, 2500>>, <<0, 1, 0>> }
ResourceNames == <<"GET /orders", "POST /orders", "GET /health">>

MetricsInputs ==
    UNION { [1..n -> RowInputs] : n \in 0..MaxMetrics }

MetricsOf(inputs) ==
    [i \in 1..Len(inputs) |->
        FetchRow(ResourceNames[i], inputs[i][1], inputs[i][2], inputs[i][3])]

\* summary percentages <<maxCpuPct, maxMemoryPct>>; <<>> is a payload without them
SummaryInputs == { <<>>, <<50, 50>>, <<85, 50>>, <<50, 85>> }

\* <<totalLogErrors, topMessages[0] present>>
LogInputs == { <<0, FALSE>>, <<10, TRUE>> }

NoContainerMemory == <<>>

\* the percentages a podMetrics.summary can carry
SummaryFields == {"avgCpuPct", "maxCpuPct", "avgMemoryPct", "maxMemoryPct"}

PodMetricsData(pods, series, start, summary, hasContainer, containerMemory) ==
    [present             |-> TRUE,
     hasPodList          |-> TRUE,
     podMetrics          |-> pods,
     hasTimeSeries       |-> series # <<>>,
     series              |-> series,
     from_date           |-> start,
     hasSummary          |-> summary # <<>>,
     summary             |-> IF summary = <<>> THEN <<0, 0>> ELSE summary,
     summaryFields       |-> IF summary = <<>> THEN {} ELSE SummaryFields,
     hasContainerMetrics |-> hasContainer,
     containerMemory     |-> containerMemory]

Payload(podMetricsData, metrics, log) ==
    [podMetrics      |-> podMetricsData,
     metrics         |-> metrics,
     hasErrorMetrics |-> TRUE,
     totalLogErrors  |-> log[1],
     hasTopMessage   |-> log[2]]

NoPayload ==
    Payload(PodMetricsData(<<>>, <<>>, 0, <<>>, FALSE, <<>>), <<>>, <<0, FALSE>>)

NoCause == Cause("", 0)
NoObservations == [set |-> FALSE, windowRestarts |-> 0, restartedPods |-> 0]
NoSeries == [pod |-> NoMatch, pointlist |-> <<>>]

GenIdle ==
    /\ data = NoPayload /\ pc = "idle" /\ overallStatus = "good"
    /\ findings = <<>> /\ recommendations = <<>> /\ observations = NoObservations
RtIdle ==
    /\ rtLen = 0 /\ rtPos = 0 /\ rtCur = NoSeries /\ rtStart = 0
    /\ restartTiming = EmptyTiming /\ rtThrew = FALSE
CauseIdle ==
    /\ causePods = <<>> /\ causeData = NoPayload /\ causeOut = NoCause

NoVerdict == [overallStatus |-> "", findings |-> <<>>, recommendations |-> <<>>]
NoAggregate == [outcome |-> "pending", resource |-> "", value |-> 0, per |-> 1]
NoRowInput == [requests |-> 0, errorCount |-> 0, p95 |-> 0, from |-> 0, to |-> 0]
NoRow == [outcome |-> "pending", row |-> FetchRow("", 0, 0, 0), rate |-> 0]
NoOutcome == [kind |-> "pending", value |-> 0]

RunIdle == runNo = 1 /\ firstVerdict = NoVerdict
AggIdle ==
    /\ aggSeries = [hasSeries |-> FALSE, scope |-> "", pointlist |-> <<>>]
    /\ aggType = "" /\ aggOut = NoAggregate
RowIdle == rowIn = NoRowInput /\ rowOut = NoRow
RetryIdle ==
    /\ maxRetries = 0 /\ attempt = 0 /\ retryPhase = "idle"
    /\ retryDelays = <<>> /\ retryLog = <<>> /\ retryOut = NoOutcome
AuxIdle == AggIdle /\ RowIdle /\ RetryIdle

NoSection == [outcome |-> "pending", windowRestarts |-> 0]
NoPipe == [phase |-> "idle"]
NoUpload == [phase |-> "idle"]
NoDeployRun == [phase |-> "idle"]
NoKids == [phase |-> "idle"]

SectionIdle == podSection = NoSection
PipeIdle == pipe = NoPipe
UploadIdle == upload = NoUpload
DeployIdle == deployRun = NoDeployRun
KidsIdle == kids = NoKids
OpsIdle == PipeIdle /\ UploadIdle /\ DeployIdle /\ KidsIdle

\* ------------------------------------------------- analyzePerformanceData
Init ==
    /\ \E r1 \in 0..MaxRestarts, r2 \in {0, MaxRestarts},
          k1, k2 \in SeriesKinds, start \in WindowStarts,
          summary \in SummaryInputs, inputs \in MetricsInputs, log \in LogInputs :
          data = Payload(
                    PodMetricsData(<<Pod("p1", r1, 0), Pod("p2", r2, 0)>>,
                                   SeriesOf("p1", k1) \o SeriesOf("p2", k2),
                                   start, summary, FALSE, NoContainerMemory),
                    MetricsOf(inputs), log)
    /\ pc = "restartSummary"
    /\ overallStatus = "good"
    /\ findings = <<>>
    /\ recommendations = <<>>
    /\ observations = NoObservations
    /\ RunIdle
    /\ SectionIdle
    /\ OpsIdle
    /\ RtIdle
    /\ CauseIdle
    /\ AuxIdle

\* if (data.podMetrics && data.podMetrics.podMetrics), lines 963, 1112, 663
HasPodList(d) == d.podMetrics.present /\ d.podMetrics.hasPodList

\* lines 1020 and 1139: errorMetrics.logSummary.totalLogErrors > 0, each link guarded
HasLogErrors(d) == d.hasErrorMetrics /\ d.totalLogErrors > 0

\* lines 1090-1091: the guard of the resource utilization block
SummaryHasAvgCpu(d) ==
    /\ d.podMetrics.present
    /\ d.podMetrics.hasSummary
    /\ "avgCpuPct" \in d.podMetrics.summaryFields

\* line 1097: toFixed is called on all four percentages; on undefined it throws
ToFixedThrows(d) == SummaryFields \ d.podMetrics.summaryFields # {}

\* lines 961-976: the restart summary finding
RestartSummaryStep ==
    /\ pc = "restartSummary"
    /\ LET podsWithRestarts ==
               IF HasPodList(data) THEN PodsWithRestarts(data.podMetrics) ELSE <<>>
           totalRestarts == TotalRestartsOf(podsWithRestarts)
       IN  IF totalRestarts > 0
           THEN /\ findings' = Push(findings,
                       <<[type |-> "PodRestarts", total |-> totalRestarts,
                          pods |-> Len(podsWithRestarts)]>>)
                /\ overallStatus' = RestartSummaryStatus(totalRestarts)
           ELSE UNCHANGED <<findings, overallStatus>>
    /\ pc' = "latency"
    /\ UNCHANGED <<data, recommendations, observations, rtVars, causeVars, runVars, auxVars, sectionVars, opsVars>>

\* lines 978-996: the high-latency finding
HighLatencyStep ==
    /\ pc = "latency"
    /\ LET highLatencyEndpoints == SelectSeq(data.metrics, IsHighLatency)
       IN  IF Len(highLatencyEndpoints) > 0
           THEN /\ findings' = Push(findings,
                       <<[type |-> "HighLatency",
                          count |-> Len(highLatencyEndpoints),
                          p95Values |-> [i \in 1..Len(highLatencyEndpoints) |->
                              ToFixed2Seconds(ParseFloat(highLatencyEndpoints[i].p95_latency))],
                          endpointNames |-> [i \in 1..Len(highLatencyEndpoints) |->
                              highLatencyEndpoints[i].resource_name]]>>)
                /\ recommendations' = Push(recommendations, <<"Investigate slow endpoints">>)
                /\ overallStatus' = HighLatencyStatus(overallStatus)
           ELSE UNCHANGED <<findings, recommendations, overallStatus>>
    /\ pc' = "errors"
    /\ UNCHANGED <<data, observations, rtVars, causeVars, runVars, auxVars, sectionVars, opsVars>>

\* lines 998-1017: the endpoint error findings
EndpointErrorStep ==
    /\ pc = "errors"
    /\ LET errorEndpoints == SelectSeq(data.metrics, HasErrors)
           totalEndpointErrors ==
               SumSeq([i \in 1..Len(errorEndpoints) |-> ParseInt(errorEndpoints[i].errors)])
           errorRateEndpoints ==
               SelectSeq(errorEndpoints, LAMBDA m : Gt(ParseFloat(m.error_rate), 0))
           worst == WorstErrorRate(Head(errorRateEndpoints), Tail(errorRateEndpoints))
       IN  IF Len(errorEndpoints) > 0
           THEN /\ findings' = Push(findings,
                       <<[type |-> "ErrorsFound", total |-> totalEndpointErrors]>>
                       \o (IF Len(errorRateEndpoints) > 0
                           THEN <<[type |-> "MostCommonError",
                                   rate |-> ParseFloat(worst.error_rate),
                                   resource |-> worst.resource_name]>>
                           ELSE <<>>))
                /\ overallStatus' = AtLeastWarning(overallStatus)
           ELSE UNCHANGED <<findings, overallStatus>>
    /\ pc' = "logs"
    /\ UNCHANGED <<data, recommendations, observations, rtVars, causeVars, runVars, auxVars, sectionVars, opsVars>>

\* lines 1019-1029: the application log error findings
LogErrorStep ==
    /\ pc = "logs"
    /\ IF HasLogErrors(data)
       THEN /\ findings' = Push(findings,
                   <<[type |-> "ApplicationErrors", total |-> data.totalLogErrors]>>
                   \o (IF data.hasTopMessage
                       THEN <<[type |-> "MostCommonLogError"]>> ELSE <<>>))
            /\ overallStatus' = AtLeastWarning(overallStatus)
       ELSE UNCHANGED <<findings, overallStatus>>
    /\ pc' = "throughput"
    /\ UNCHANGED <<data, recommendations, observations, rtVars, causeVars, runVars, auxVars, sectionVars, opsVars>>

\* lines 1031-1040: the throughput finding
ThroughputStep ==
    /\ pc = "throughput"
    /\ LET totalRequests ==
               SumSeq([i \in 1..Len(data.metrics) |-> data.metrics[i].requests])
       IN  IF Len(data.metrics) > 0 /\ totalRequests > 0
           THEN findings' = Push(findings,
                    <<[type |-> "Throughput", total |-> totalRequests]>>)
           ELSE UNCHANGED findings
    /\ pc' = "resources"
    /\ UNCHANGED <<data, overallStatus, recommendations, observations, rtVars, causeVars, runVars, auxVars, sectionVars, opsVars>>

\* lines 1090-1109: the resource utilization finding
ResourceUtilizationStep ==
    /\ pc = "resources"
    /\ IF SummaryHasAvgCpu(data)
       THEN IF ToFixedThrows(data)
            THEN /\ pc' = "threw"
                 /\ UNCHANGED <<findings, recommendations, overallStatus>>
            ELSE LET maxCpu == data.podMetrics.summary[1]
                     maxMem == data.podMetrics.summary[2]
                 IN  /\ findings' = Push(findings,
                            <<[type |-> "ResourceUtilization",
                               maxCpu |-> maxCpu, maxMem |-> maxMem]>>)
                     /\ recommendations' = Push(recommendations,
                            (IF maxCpu > 80 THEN <<"CPU usage peaked above 80%">> ELSE <<>>)
                            \o (IF maxMem > 80 THEN <<"Memory usage peaked above 80%">> ELSE <<>>))
                     /\ overallStatus' = IF maxCpu > 80 \/ maxMem > 80
                                         THEN AtLeastWarning(overallStatus)
                                         ELSE overallStatus
                     /\ pc' = "restartDetail"
       ELSE /\ pc' = "restartDetail"
            /\ UNCHANGED <<findings, recommendations, overallStatus>>
    /\ UNCHANGED <<data, observations, rtVars, causeVars, runVars, auxVars, sectionVars, opsVars>>

\* lines 1111-1157: the detailed restart findings
RestartDetailStep ==
    /\ pc = "restartDetail"
    /\ LET timing == analyzeRestartTiming(data.podMetrics)
           podsWithRestarts ==
               IF HasPodList(data) THEN PodsWithRestarts(data.podMetrics) ELSE <<>>
           totalRestarts == TotalRestartsOf(podsWithRestarts)
           podLine(pod) ==
               [type |-> "PodRestartLine", podName |-> pod.podName,
                restarts |-> pod.restarts,
                at |-> IF timing[pod.podName].duringWindow
                       THEN <<timing[pod.podName].exactTime>> ELSE <<>>]
       IN  IF totalRestarts > 0
           THEN /\ findings' = Push(findings,
                       <<[type |-> "PodRestartsDetected", total |-> totalRestarts,
                          pods |-> Len(podsWithRestarts)]>>
                       \o [i \in 1..Len(podsWithRestarts) |-> podLine(podsWithRestarts[i])]
                       \o <<[type |-> "RestartCause",
                             cause |-> getMainRestartCause(podsWithRestarts, data)]>>)
                /\ recommendations' = Push(recommendations,
                       (IF HasLogErrors(data)
                        THEN <<"Application errors causing restarts">> ELSE <<>>)
                       \o (IF \E i \in 1..Len(podsWithRestarts) :
                                 podsWithRestarts[i].restarts >= 3
                           THEN <<"Frequent restarts detected">> ELSE <<>>))
                /\ overallStatus' = RestartDetailStatus(overallStatus, totalRestarts)
           ELSE UNCHANGED <<findings, recommendations, overallStatus>>
    /\ pc' = "final"
    /\ UNCHANGED <<data, observations, rtVars, causeVars, runVars, auxVars, sectionVars, opsVars>>

StillGoodOrWarning(status) == status # "critical"

\* line 1160: if (overallStatus === 'good')
StillGood(status) == status = "good"

\* lines 1159-1166: the affirmative finding, and the return
AffirmativeStep ==
    /\ pc = "final"
    /\ IF StillGood(overallStatus)
       THEN /\ findings' = Push(findings, <<[type |-> "AllGood"]>>)
            /\ recommendations' = Push(recommendations,
                   <<"Continue monitoring performance trends over time",
                     "Establish this test as a baseline for future regression testing">>)
       ELSE UNCHANGED <<findings, recommendations>>
    /\ pc' = "done"
    /\ UNCHANGED <<data, overallStatus, observations, rtVars, causeVars, runVars, auxVars, sectionVars, opsVars>>

\* lines 599-601, the filter of the first generateSummaryObservations, which
\* the second definition of the same method name replaces
ValidRestartUnlessBefore(pod, timing) ==
    /\ pod.restarts > 0
    /\ \/ pod.podName \notin DOMAIN timing
       \/ timing[pod.podName].exactTime.kind # "Before"

\* lines 666-668: pod.restarts && pod.restarts > 0 &&
\*                (podTiming && podTiming.duringWindow !== false)
ValidRestart(pod, timing) ==
    /\ pod.restarts > 0
    /\ pod.podName \in DOMAIN timing
    /\ timing[pod.podName].duringWindow # FALSE

\* lines 664-669: validRestarts
ValidRestarts(podMetricsData) ==
    LET timing == analyzeRestartTiming(podMetricsData)
    IN  SelectSeq(podMetricsData.podMetrics,
                  LAMBDA pod : ValidRestart(pod, timing))

\* generateSummaryObservations (the definition the class keeps, lines 657-722)
GenerateSummaryObservations ==
    /\ pc = "done"
    /\ LET validRestarts ==
               IF HasPodList(data) THEN ValidRestarts(data.podMetrics) ELSE <<>>
       IN  observations' = [set |-> TRUE,
                            windowRestarts |-> TotalRestartsOf(validRestarts),
                            restartedPods |-> Len(validRestarts)]
    /\ pc' = "summarised"
    /\ UNCHANGED <<data, overallStatus, findings, recommendations, rtVars, causeVars, runVars, auxVars, sectionVars, opsVars>>

\* lines 1265-1267: the filter of the pod-metrics section
SectionCounts(pod, timing) ==
    /\ pod.restarts > 0
    /\ pod.podName \in DOMAIN timing
    /\ timing[pod.podName].duringWindow # FALSE

\* lines 1263-1268: windowRestarts of the section
SectionWindowRestarts(containerData) ==
    LET timing == analyzeRestartTiming(containerData)
    IN  TotalRestartsOf(SelectSeq(containerData.podMetrics,
                                  LAMBDA pod : SectionCounts(pod, timing)))

\* generatePodMetricsSection, lines 1237-1320: containerData is the container
\* metrics file of the service, the file data.podMetrics was loaded from;
\* without it or its pod list the section is '', and line 1271 reads
\* containerData.summary.runningPods, which throws without a summary
GeneratePodMetricsSection ==
    /\ pc = "summarised"
    /\ podSection' =
          IF ~HasPodList(data)
          THEN [outcome |-> "empty", windowRestarts |-> 0]
          ELSE IF ~data.podMetrics.hasSummary
          THEN [outcome |-> "threw",
                windowRestarts |-> SectionWindowRestarts(data.podMetrics)]
          ELSE [outcome |-> "rendered",
                windowRestarts |-> SectionWindowRestarts(data.podMetrics)]
    /\ pc' = "rendered"
    /\ UNCHANGED <<data, overallStatus, findings, recommendations, observations,
                   rtVars, causeVars, runVars, auxVars, opsVars>>

Next ==
    \/ GeneratePodMetricsSection
    \/ RestartSummaryStep
    \/ HighLatencyStep
    \/ EndpointErrorStep
    \/ LogErrorStep
    \/ ThroughputStep
    \/ ResourceUtilizationStep
    \/ RestartDetailStep
    \/ AffirmativeStep
    \/ GenerateSummaryObservations

Spec == Init /\ [][Next]_vars

\* ------------------------------ analyzePerformanceData on partial payloads
\* a podMetrics.summary object: which percentages it carries, and the peaks
PartialSummaryInputs ==
    { [fields |-> f, peaks |-> v] :
        f \in SUBSET SummaryFields, v \in SummaryInputs \ { <<>> } }

NoPodMetrics ==
    [PodMetricsData(<<>>, <<>>, 0, <<>>, FALSE, NoContainerMemory)
        EXCEPT !.present = FALSE, !.hasPodList = FALSE]

PartialPodMetricsInputs ==
    { NoPodMetrics }
    \cup { [PodMetricsData(IF hasList THEN <<Pod("p1", r1, 0)>> ELSE <<>>,
                            SeriesOf("p1", k1), start, <<>>, FALSE, NoContainerMemory)
               EXCEPT !.hasPodList = hasList] :
             hasList \in BOOLEAN, r1 \in 0..MaxRestarts, k1 \in SeriesKinds,
             start \in WindowStarts }
    \cup { [PodMetricsData(<<Pod("p1", r1, 0)>>, SeriesOf("p1", k1), start,
                            summary.peaks, FALSE, NoContainerMemory)
               EXCEPT !.summaryFields = summary.fields] :
             r1 \in 0..MaxRestarts, k1 \in SeriesKinds, start \in WindowStarts,
             summary \in PartialSummaryInputs }

SingleMetricsInputs == { <<>> } \cup { <<r>> : r \in RowInputs }

InitPartial ==
    /\ \E podMetricsData \in PartialPodMetricsInputs,
          inputs \in SingleMetricsInputs, hasErrors \in BOOLEAN, log \in LogInputs :
          /\ hasErrors \/ log = <<0, FALSE>>
          /\ data = [Payload(podMetricsData, MetricsOf(inputs), log)
                        EXCEPT !.hasErrorMetrics = hasErrors]
    /\ pc = "restartSummary"
    /\ overallStatus = "good"
    /\ findings = <<>>
    /\ recommendations = <<>>
    /\ observations = NoObservations
    /\ RunIdle
    /\ SectionIdle
    /\ OpsIdle
    /\ RtIdle
    /\ CauseIdle
    /\ AuxIdle

SpecPartial == InitPartial /\ [][Next]_vars

\* ------------------------- the fetcher's restart count fed to the generator
\* the samples of one pod's restart counter over the window, oldest first
CounterPointlists ==
    { << <<1000, a>>, <<2000, b>> >> : a, b \in 0..MaxCounter }

\* fetchdatadogmetrics.js lines 892-893: Math.max(...values)
MaxValue(pointlist) ==
    CHOOSE v \in { pointlist[i][2] : i \in 1..Len(pointlist) } :
        \A i \in 1..Len(pointlist) : pointlist[i][2] <= v

\* fetchdatadogmetrics.js lines 889-901: pod.restarts of one restart series
processMetrics(podName, pointlist) == Pod(podName, MaxValue(pointlist), 0)

\* the container metrics file of a service with two pods, as the fetcher
\* writes it from the restart series of the window
InitFetched ==
    /\ \E s1, s2 \in CounterPointlists, start \in WindowStarts :
          data = Payload(
                    PodMetricsData(
                        <<processMetrics("p1", s1), processMetrics("p2", s2)>>,
                        <<[pod |-> "p1", pointlist |-> s1],
                          [pod |-> "p2", pointlist |-> s2]>>,
                        start, <<50, 50>>, FALSE, NoContainerMemory),
                    MetricsOf(<<>>), <<0, FALSE>>)
    /\ pc = "restartSummary"
    /\ overallStatus = "good"
    /\ findings = <<>>
    /\ recommendations = <<>>
    /\ observations = NoObservations
    /\ RunIdle
    /\ SectionIdle
    /\ OpsIdle
    /\ RtIdle
    /\ CauseIdle
    /\ AuxIdle

SpecFetched == InitFetched /\ [][Next]_vars

\* ------------------------------------ analyzePerformanceData called twice
\* line 1167: return { overallStatus, findings, recommendations }
Verdict ==
    [overallStatus |-> overallStatus, findings |-> findings,
     recommendations |-> recommendations]

KeptList(previous) == previous

\* lines 955-956: const findings = []; const recommendations = [] on every call
FreshList(previous) == <<>>

\* a second call with the same payload object, after the first has returned
CallAgain ==
    /\ pc \in {"done", "summarised", "rendered"}
    /\ runNo = 1
    /\ firstVerdict' = Verdict
    /\ runNo' = 2
    /\ findings' = FreshList(findings)
    /\ recommendations' = FreshList(recommendations)
    /\ overallStatus' = "good"
    /\ pc' = "restartSummary"
    /\ UNCHANGED <<data, observations, rtVars, causeVars, auxVars, sectionVars, opsVars>>

NextTwice == Next \/ CallAgain

SpecTwice == InitPartial /\ [][NextTwice]_vars

\* --------------------------------------- analyzeRestartTiming, series by series
RECURSIVE SortedSeq(_)
SortedSeq(S) ==
    IF S = {} THEN <<>>
    ELSE LET m == CHOOSE x \in S : \A y \in S : x <= y
         IN  <<m>> \o SortedSeq(S \ {m})

\* pointlists in ascending timestamp order, as the metrics API returns them
PointlistInputs ==
    UNION { { [i \in 1..Cardinality(T) |-> <<SortedSeq(T)[i], v[i]>>] :
                v \in [1..Cardinality(T) -> 0..MaxCounter] } :
            T \in SUBSET Timestamps }

\* a series object without an expression property
NoExpression == "noexpression"

\* line 735: series.expression.match(...) on an undefined expression throws
ExpressionMissing(series) == series.pod = NoExpression

SeriesInputs ==
    [pod : PodNames \cup {NoMatch, NoExpression}, pointlist : PointlistInputs]

InitTiming ==
    /\ GenIdle
    /\ RunIdle
    /\ SectionIdle
    /\ OpsIdle
    /\ CauseIdle
    /\ AuxIdle
    /\ rtThrew = FALSE
    /\ rtLen \in 0..MaxSeries
    /\ rtPos = 0
    /\ rtCur = NoSeries
    /\ rtStart \in WindowStarts
    /\ restartTiming = EmptyTiming

\* one iteration of for (const series of restartSeries), lines 733-786
ClassifySeries ==
    /\ pc = "idle"
    /\ rtPos < rtLen
    /\ ~rtThrew
    /\ \E series \in SeriesInputs :
          /\ rtCur' = series
          /\ IF ExpressionMissing(series)
             THEN /\ rtThrew' = TRUE
                  /\ UNCHANGED <<restartTiming, rtPos>>
             ELSE /\ restartTiming' = ProcessSeries(restartTiming, series, rtStart)
                  /\ rtPos' = rtPos + 1
                  /\ rtThrew' = FALSE
    /\ UNCHANGED <<rtLen, rtStart, genVars, causeVars, runVars, auxVars, sectionVars, opsVars>>

NextTiming == ClassifySeries

SpecTiming == InitTiming /\ [][NextTiming]_vars

\* ------------------------------------------- getMainRestartCause on its own
MemoryPcts == {50, 95}

CausePodInputs ==
    { <<Pod("p1", r, m)>> : r \in 1..MaxRestarts, m \in MemoryPcts }
    \cup { <<Pod("p2", r, m)>> : r \in 1..MaxRestarts, m \in MemoryPcts }
    \cup { <<Pod("p1", r1, m1), Pod("p2", r2, m2)>> :
             r1 \in 1..MaxRestarts, m1 \in MemoryPcts,
             r2 \in 1..MaxRestarts, m2 \in MemoryPcts }

Memory(podName, maxMemory) == [podName |-> podName, maxMemory |-> maxMemory]

ContainerMemoryInputs ==
    { <<>> }
    \cup { <<Memory(p, m)>> : p \in PodNames, m \in MemoryPcts }
    \cup { <<Memory("p1", m1), Memory("p2", m2)>> : m1 \in MemoryPcts, m2 \in MemoryPcts }

InitCause ==
    /\ GenIdle
    /\ RunIdle
    /\ SectionIdle
    /\ OpsIdle
    /\ RtIdle
    /\ AuxIdle
    /\ causePods \in CausePodInputs
    /\ \E has \in BOOLEAN, mem \in ContainerMemoryInputs, log \in LogInputs :
          /\ has \/ mem = <<>>
          /\ causeData = Payload(
                 PodMetricsData(causePods, <<>>, 0, <<>>, has, mem), <<>>, log)
    /\ causeOut = NoCause

\* lines 792-814
SelectCause ==
    /\ pc = "idle"
    /\ causePods # <<>>
    /\ causeOut = NoCause
    /\ causeOut' = getMainRestartCause(causePods, causeData)
    /\ UNCHANGED <<causePods, causeData, genVars, rtVars, runVars, auxVars, sectionVars, opsVars>>

NextCause == SelectCause

SpecCause == InitCause /\ [][NextCause]_vars

\* ------------------------------------------------------- extractByResource
MaxSamples == 21
LargeSampleCounts == {100, 101}
SampleModulus == 103
SampleStrides == {1, 40}
SampleOffsets == {0, 1}
NullPatterns == {0, 1, 2}     \* no null point, every point null, every second one
AggregationTypes == {"sum", "p95", "p99", "rate", "avg"}

Null == -1                    \* a point whose value is null or undefined

\* pointlist values p[1]: a strided walk over 0..SampleModulus-1 with nulls
PointValues(n, stride, offset, nullEvery) ==
    [i \in 1..n |->
        IF nullEvery > 0 /\ i % nullEvery = 0
        THEN Null ELSE (i * stride + offset) % SampleModulus]

PointValueInputs ==
    { PointValues(n, k, c, z) :
        n \in (0..MaxSamples) \cup LargeSampleCounts,
        k \in SampleStrides, c \in SampleOffsets, z \in NullPatterns }

NoScope == ""
ScopeInputs == {NoScope, "GET /orders"}

\* data.series: absent, or one series with its scope and pointlist
AggregateInputs ==
    { [hasSeries |-> FALSE, scope |-> NoScope, pointlist |-> <<>>] }
    \cup { [hasSeries |-> TRUE, scope |-> sc, pointlist |-> pl] :
             sc \in ScopeInputs, pl \in PointValueInputs }

\* line 159: .filter(v => v !== null && v !== undefined)
ValuesOf(pointlist) == SelectSeq(pointlist, LAMBDA v : v # Null)

\* [...values].sort((a, b) => a - b), lines 166 and 170: position k of the
\* ascending order holds the value with fewer than k values below it and at
\* least k values not above it
SortAscending(values) ==
    [k \in 1..Len(values) |->
        CHOOSE v \in { values[i] : i \in 1..Len(values) } :
            /\ Cardinality({ i \in 1..Len(values) : values[i] < v }) < k
            /\ k <= Cardinality({ i \in 1..Len(values) : values[i] <= v })]

PercentileIndexOfLast(count, pct) == ((count - 1) * pct) \div 100

\* Math.floor(sorted.length * 0.95), Math.floor(sorted.length * 0.99);
\* the array index is zero-based
PercentileIndex(count, pct) == (count * pct) \div 100

\* lines 163-178; a mean is kept as the fraction value / per
Aggregate(values, aggregationType) ==
    CASE aggregationType = "sum" -> [value |-> SumSeq(values), per |-> 1]
      [] aggregationType = "p95" ->
            [value |-> SortAscending(values)[PercentileIndex(Len(values), 95) + 1] * 1000,
             per |-> 1]
      [] aggregationType = "p99" ->
            [value |-> SortAscending(values)[PercentileIndex(Len(values), 99) + 1] * 1000,
             per |-> 1]
      [] OTHER -> [value |-> SumSeq(values), per |-> Len(values)]

\* lines 149-156
ResourceNameOf(series) == IF series.scope = NoScope THEN "unknown" ELSE series.scope

\* lines 142-185 for a response of at most one series: the entry byResource
\* gets for the series' resource, or no entry
extractByResource(series, aggregationType) ==
    IF ~series.hasSeries
    THEN [outcome |-> "no entry", resource |-> "", value |-> 0, per |-> 1]
    ELSE IF Len(series.pointlist) = 0 \/ Len(ValuesOf(series.pointlist)) = 0
    THEN [outcome |-> "no entry", resource |-> ResourceNameOf(series),
          value |-> 0, per |-> 1]
    ELSE LET result == Aggregate(ValuesOf(series.pointlist), aggregationType)
         IN  [outcome |-> "entry", resource |-> ResourceNameOf(series),
              value |-> result.value, per |-> result.per]

InitAggregate ==
    /\ GenIdle
    /\ RunIdle
    /\ SectionIdle
    /\ OpsIdle
    /\ RtIdle
    /\ CauseIdle
    /\ RowIdle
    /\ RetryIdle
    /\ aggSeries \in AggregateInputs
    /\ aggType \in AggregationTypes
    /\ aggOut = NoAggregate

ExtractSeries ==
    /\ aggType \in AggregationTypes
    /\ aggOut = NoAggregate
    /\ aggOut' = extractByResource(aggSeries, aggType)
    /\ UNCHANGED <<aggSeries, aggType, genVars, runVars, rtVars, causeVars,
                   rowVars, retryVars, sectionVars, opsVars>>

NextAggregate == ExtractSeries

SpecAggregate == InitAggregate /\ [][NextAggregate]_vars

\* ------------------------------------ fetchEndpointMetricsTable, row by row
MaxRequests == 7
MaxErrors == 3
WindowFrom == {1000}
WindowTo == {940, 1000, 1060}        \* epoch seconds: before, at and after from
P95Inputs == {0, 1500}               \* no p95ByResource entry, or 1500 ms

RowInputSet ==
    [requests : 0..MaxRequests, errorCount : 0..MaxErrors, p95 : P95Inputs,
     from : WindowFrom, to : WindowTo]

InitTable ==
    /\ GenIdle
    /\ RunIdle
    /\ SectionIdle
    /\ OpsIdle
    /\ RtIdle
    /\ CauseIdle
    /\ AggIdle
    /\ RetryIdle
    /\ rowIn \in RowInputSet
    /\ rowOut = NoRow

\* lines 300-319: one endpoint of allEndpoints.forEach
PushRow ==
    /\ rowOut = NoRow
    /\ rowIn \in RowInputSet
    /\ LET totalTimeSeconds == rowIn.to - rowIn.from
       IN  rowOut' = [outcome |-> "row",
                      row |-> FetchRow("GET /orders", rowIn.requests,
                                       rowIn.errorCount, rowIn.p95),
                      rate |-> ActualRate(rowIn.requests, totalTimeSeconds)]
    /\ UNCHANGED <<rowIn, genVars, runVars, rtVars, causeVars, aggVars, retryVars, sectionVars, opsVars>>

NextTable == PushRow

SpecTable == InitTable /\ [][NextTable]_vars

\* ------------------------------------------------------------ retryApiCall
MaxRetries == 3
DefaultMaxRetries == 3               \* maxRetries = 3
ErrorStatuses == {429, 500, 502, 503}
Responses == {"events", "no events"}

BackoffConstant(i) == 1000

\* line 1004: Math.pow(2, i) * 1000
Backoff(i) == (2 ^ i) * 1000

IsFinalAttemptLate(i, limit) == i = limit

\* line 1000: if (i === maxRetries - 1)
IsFinalAttempt(i, limit) == i = limit - 1

InitRetry ==
    /\ GenIdle
    /\ RunIdle
    /\ SectionIdle
    /\ OpsIdle
    /\ RtIdle
    /\ CauseIdle
    /\ AggIdle
    /\ RowIdle
    /\ maxRetries \in 1..MaxRetries
    /\ attempt = 0
    /\ retryPhase = "calling"
    /\ retryDelays = <<>>
    /\ retryLog = <<>>
    /\ retryOut = NoOutcome

\* lines 994-1006: await apiCall() settles; on a rejection the catch block
\* rethrows on the final attempt and otherwise starts the backoff timer
AttemptCall ==
    /\ retryPhase = "calling"
    /\ attempt < maxRetries
    /\ \/ \E response \in Responses :
             /\ retryOut' = [kind |-> "result", value |-> response]
             /\ retryPhase' = "returned"
             /\ UNCHANGED <<retryLog, retryDelays>>
       \/ \E status \in ErrorStatuses :
             /\ retryLog' = Append(retryLog, status)
             /\ IF IsFinalAttempt(attempt, maxRetries)
                THEN /\ retryOut' = [kind |-> "error", value |-> status]
                     /\ retryPhase' = "threw"
                     /\ UNCHANGED retryDelays
                ELSE /\ retryDelays' = Append(retryDelays, Backoff(attempt))
                     /\ retryPhase' = "waiting"
                     /\ UNCHANGED retryOut
    /\ UNCHANGED <<maxRetries, attempt, genVars, runVars, rtVars, causeVars,
                   aggVars, rowVars, sectionVars, opsVars>>

\* line 1006 resolves: the timer fires, i++, and the loop condition
\* i < maxRetries of line 993 decides between the next attempt and falling off
\* the end of the function, which resolves to undefined
TimerFires ==
    /\ retryPhase = "waiting"
    /\ attempt' = attempt + 1
    /\ IF attempt + 1 < maxRetries
       THEN /\ retryPhase' = "calling"
            /\ UNCHANGED retryOut
       ELSE /\ retryPhase' = "returned"
            /\ retryOut' = [kind |-> "undefined", value |-> 0]
    /\ UNCHANGED <<maxRetries, retryDelays, retryLog, genVars, runVars,
                   rtVars, causeVars, aggVars, rowVars, sectionVars, opsVars>>

NextRetry == AttemptCall \/ TimerFires

SpecRetry == InitRetry /\ [][NextRetry]_vars

\* every call carries a timeout (lines 1029, 1079, 1117, ...) so its promise
\* settles, and a started timer fires
SpecRetryFair == SpecRetry /\ WF_vars(AttemptCall) /\ WF_vars(TimerFires)

\* ----------------------------------------------------- runAutomation pipeline
\* src/core/auto-report.js: the three child commands, in source order
Steps == <<"fetch", "upload", "deploy">>
RequiredArgs == {"--from", "--to", "--service"}
ChildExitCodes == {0, 1}

\* what a child may have left behind when it ends, whatever its exit code
EffectsOf(stepName) ==
    CASE stepName = "fetch" ->
            SUBSET {"metrics file", "error metrics file", "container metrics file"}
      [] stepName = "upload" -> SUBSET {"confluence page", "attachment"}
      [] stepName = "deploy" ->
            { {}, {"staged"}, {"staged", "committed"},
              {"staged", "committed", "pushed"} }

StepSucceededAlways(code) == TRUE

\* lines 48-53: execSync throws on a non-zero exit code, runCommand returns false
StepSucceeded(code) == code = 0

InitPipeline ==
    /\ GenIdle
    /\ RunIdle
    /\ SectionIdle
    /\ RtIdle
    /\ CauseIdle
    /\ AuxIdle
    /\ UploadIdle
    /\ DeployIdle
    /\ KidsIdle
    /\ \E given \in SUBSET RequiredArgs :
          pipe = [phase |-> "args", args |-> given, started |-> <<>>,
                  codes |-> <<>>, effects |-> {}, exitCode |-> -1, banner |-> FALSE]

\* lines 32-37: a missing parameter ends the process with code 1
CheckParameters ==
    /\ pipe.phase = "args"
    /\ pipe' = IF pipe.args = RequiredArgs
               THEN [pipe EXCEPT !.phase = "running"]
               ELSE [pipe EXCEPT !.phase = "exited", !.exitCode = 1]
    /\ UNCHANGED <<genVars, runVars, rtVars, causeVars, auxVars, sectionVars,
                   upload, deployRun, kids>>

\* lines 61-77: one if (!runCommand(step, ...)) process.exit(1); after the
\* third, lines 79-89 print the banner and the process ends with code 0
RunStep ==
    /\ pipe.phase = "running"
    /\ Len(pipe.started) < Len(Steps)
    /\ LET stepName == Steps[Len(pipe.started) + 1]
       IN  \E code \in ChildExitCodes, left \in EffectsOf(stepName) :
             LET ran == [pipe EXCEPT !.started = Append(@, stepName),
                                     !.codes = Append(@, code),
                                     !.effects = @ \cup left]
             IN  pipe' =
                    IF ~StepSucceeded(code)
                    THEN [ran EXCEPT !.phase = "exited", !.exitCode = 1]
                    ELSE IF Len(ran.started) = Len(Steps)
                    THEN [ran EXCEPT !.phase = "complete", !.banner = TRUE,
                                     !.exitCode = 0]
                    ELSE ran
    /\ UNCHANGED <<genVars, runVars, rtVars, causeVars, auxVars, sectionVars,
                   upload, deployRun, kids>>

NextPipeline == CheckParameters \/ RunStep

SpecPipeline == InitPipeline /\ [][NextPipeline]_vars

\* ------------------------------------------- confluence-uploader.js upload
\* highest version number an existing page has when the upload starts
MaxVersion == 4

\* the page with the report's title in the space when upload is called
ServerPages ==
    {[exists |-> FALSE, version |-> 0]}
        \cup {[exists |-> TRUE, version |-> v] : v \in 1..MaxVersion}

\* a request to the Confluence REST API resolves or rejects
ApiOutcomes == {"ok", "error"}

NoExistingPage == [found |-> FALSE, version |-> 0]

\* lines 1463-1476: results[0] || null, and null again when the request
\* rejects
findPage(server, outcome) ==
    IF outcome = "ok" /\ server.exists
    THEN [found |-> TRUE, version |-> server.version]
    ELSE NoExistingPage

\* lines 1440-1454: the request uploadToConfluence issues for what findPage
\* returned; createPage sends no version number
PageRequest(existingPage) ==
    IF existingPage.found
    THEN [kind |-> "update", version |-> existingPage.version + 1]
    ELSE [kind |-> "create", version |-> 0]

InitUpload ==
    /\ GenIdle
    /\ RunIdle
    /\ SectionIdle
    /\ RtIdle
    /\ CauseIdle
    /\ AuxIdle
    /\ PipeIdle
    /\ DeployIdle
    /\ KidsIdle
    /\ \E readable \in BOOLEAN, server \in ServerPages :
          upload = [phase |-> "start", readable |-> readable, server |-> server,
                    existingPage |-> NoExistingPage, requests |-> <<>>,
                    failed |-> {}, logs |-> {}, exitCode |-> -1]

\* uploadReport, up to the generated content: a missing or unreadable metrics
\* file throws into the outer catch, which exits with code 1
ReadReportData ==
    /\ upload.phase = "start"
    /\ upload' = IF upload.readable
                 THEN [upload EXCEPT !.phase = "lookup"]
                 ELSE [upload EXCEPT !.phase = "exited", !.exitCode = 1,
                                     !.logs = @ \cup {"error uploading report"}]
    /\ UNCHANGED <<genVars, runVars, rtVars, causeVars, auxVars, sectionVars,
                   pipe, deployRun, kids>>

\* uploadToConfluence lines 1437-1438: await this.findPage(title, space)
FindPage ==
    /\ upload.phase = "lookup"
    /\ \E outcome \in ApiOutcomes :
          upload' = [upload EXCEPT
                        !.phase = "request",
                        !.existingPage = findPage(upload.server, outcome),
                        !.failed = IF outcome = "error"
                                   THEN @ \cup {"lookup"} ELSE @]
    /\ UNCHANGED <<genVars, runVars, rtVars, causeVars, auxVars, sectionVars,
                   pipe, deployRun, kids>>

\* uploadToConfluence lines 1440-1460: one updatePage or one createPage; a
\* rejected request lands in the catch, which logs and returns
SendPage ==
    /\ upload.phase = "request"
    /\ \E outcome \in ApiOutcomes :
          LET request == PageRequest(upload.existingPage)
          IN  upload' = [upload EXCEPT
                            !.phase = "attach",
                            !.requests = Append(@, request),
                            !.failed = IF outcome = "error"
                                       THEN @ \cup {request.kind} ELSE @,
                            !.logs = IF outcome = "error"
                                     THEN @ \cup {"failed to upload"}
                                     ELSE @ \cup {request.kind}]
    /\ UNCHANGED <<genVars, runVars, rtVars, causeVars, auxVars, sectionVars,
                   pipe, deployRun, kids>>

\* uploadReport after the await: the attachment, whose result is not looked
\* at, then the success message; the process ends with code 0
AttachAndReport ==
    /\ upload.phase = "attach"
    /\ \E fileExists \in BOOLEAN, outcome \in ApiOutcomes :
          /\ ~fileExists => outcome = "ok"
          /\ upload' = [upload EXCEPT
                           !.phase = "exited",
                           !.exitCode = 0,
                           !.failed = IF fileExists /\ outcome = "error"
                                      THEN @ \cup {"attachment"} ELSE @,
                           !.logs = (IF fileExists
                                     THEN @ \cup {"attached"}
                                     ELSE @ \cup {"report not found"})
                                        \cup {"uploaded successfully"}]
    /\ UNCHANGED <<genVars, runVars, rtVars, causeVars, auxVars, sectionVars,
                   pipe, deployRun, kids>>

NextUpload == ReadReportData \/ FindPage \/ SendPage \/ AttachAndReport

SpecUpload == InitUpload /\ [][NextUpload]_vars

\* --------------------------------------------------- deploy-to-main.js
\* runCommand(command, description, retries = 3)
DefaultRetries == 3

\* seconds of the wait before a retry: timeout /t 2 /nobreak
RetryWaitSeconds == 2

\* lines 79-103: the git commands of deploy(), the retries each is called with
\* and whether deploy() exits when runCommand returns false
DeployOps ==
    << [command |-> "git reset",  retries |-> 1,              required |-> FALSE],
       [command |-> "git add",    retries |-> DefaultRetries, required |-> TRUE],
       [command |-> "git commit", retries |-> DefaultRetries, required |-> FALSE],
       [command |-> "git push",   retries |-> DefaultRetries, required |-> TRUE] >>

\* lines 34-41: what one pass of the loop does before the git command
BeforeCommand(pass) ==
    IF pass > 1
    THEN [cleaned |-> TRUE, waited |-> RetryWaitSeconds]
    ELSE [cleaned |-> FALSE, waited |-> 0]

\* lines 46-51: the catch returns false only in the last pass
AttemptsExhausted(pass, retries) == pass = retries

InitDeploy ==
    /\ GenIdle
    /\ RunIdle
    /\ SectionIdle
    /\ RtIdle
    /\ CauseIdle
    /\ AuxIdle
    /\ PipeIdle
    /\ UploadIdle
    /\ KidsIdle
    /\ \E hasReports \in BOOLEAN :
          deployRun = [phase |-> "start", hasReports |-> hasReports, op |-> 1,
                       attempt |-> 1, log |-> <<>>, results |-> <<>>,
                       lockCleans |-> 0, exitCode |-> -1]

\* lines 56-77: cleanGitLocks(), then exit 1 unless html-reports holds a report
CheckReports ==
    /\ deployRun.phase = "start"
    /\ deployRun' = IF deployRun.hasReports
                    THEN [deployRun EXCEPT !.phase = "running",
                                           !.lockCleans = @ + 1]
                    ELSE [deployRun EXCEPT !.phase = "exited", !.exitCode = 1,
                                           !.lockCleans = @ + 1]
    /\ UNCHANGED <<genVars, runVars, rtVars, causeVars, auxVars, sectionVars,
                   pipe, upload, kids>>

\* deploy() after runCommand returned: the next command, or exit 1 after a
\* failed add or push, or the end of the script after the push
AfterCommand(run, succeeded) ==
    LET done == [run EXCEPT !.results = Append(@, succeeded), !.attempt = 1]
    IN  IF ~succeeded /\ DeployOps[run.op].required
        THEN [done EXCEPT !.phase = "exited", !.exitCode = 1]
        ELSE IF run.op = Len(DeployOps)
        THEN [done EXCEPT !.phase = "deployed", !.exitCode = 0]
        ELSE [done EXCEPT !.op = @ + 1]

\* lines 31-52: one pass of the loop of runCommand. In a retry the locks are
\* cleaned and the wait command runs inside the same try as the git command:
\* when the wait command throws (timeout /t is the Windows tool and needs a
\* console for its input) the git command is not run in that pass.
AttemptCommand ==
    /\ deployRun.phase = "running"
    /\ \E waitOk \in BOOLEAN, gitOk \in BOOLEAN :
          LET this == DeployOps[deployRun.op]
              before == BeforeCommand(deployRun.attempt)
              ran == before.waited = 0 \/ waitOk
              ok == ran /\ gitOk
              event == [op |-> deployRun.op, attempt |-> deployRun.attempt,
                        cleaned |-> before.cleaned, waited |-> before.waited,
                        ran |-> ran, ok |-> ok]
              logged == [deployRun EXCEPT
                            !.log = Append(@, event),
                            !.lockCleans = IF before.cleaned THEN @ + 1 ELSE @]
          IN  /\ before.waited = 0 => waitOk
              /\ ~waitOk => ~gitOk
              /\ deployRun' =
                    IF ok THEN AfterCommand(logged, TRUE)
                    ELSE IF AttemptsExhausted(deployRun.attempt, this.retries)
                    THEN AfterCommand(logged, FALSE)
                    ELSE [logged EXCEPT !.attempt = @ + 1]
    /\ UNCHANGED <<genVars, runVars, rtVars, causeVars, auxVars, sectionVars,
                   pipe, upload, kids>>

NextDeploy == CheckReports \/ AttemptCommand

SpecDeploy == InitDeploy /\ [][NextDeploy]_vars

\* ------------------------------------- reports for all services (part_004)
\* largest number of services found in the reports directory
MaxServices == 4

\* the code a child closes with: 0, non-zero, or null after a signal
CloseCodes == {0, 1, Null}

SummaryAtAnyClose(completedCount, failedCount, services) ==
    completedCount + failedCount >= 1

\* line 673: if (completedCount + failedCount === services.length)
SummaryDue(completedCount, failedCount, services) ==
    completedCount + failedCount = services

InitServices ==
    /\ GenIdle
    /\ RunIdle
    /\ SectionIdle
    /\ RtIdle
    /\ CauseIdle
    /\ AuxIdle
    /\ PipeIdle
    /\ UploadIdle
    /\ DeployIdle
    /\ \E n \in 0..MaxServices :
          kids = [phase |-> "start", services |-> n,
                  child |-> [i \in 1..n |-> "scheduled"],
                  closeOrder |-> <<>>, completedCount |-> 0, failedCount |-> 0,
                  printed |-> <<>>, exitCode |-> -1]

\* lines 619-644: the service list; exit 1 when it is empty, otherwise one
\* timer per service with delay index * 1000
ScheduleServices ==
    /\ kids.phase = "start"
    /\ kids' = IF kids.services = 0
               THEN [kids EXCEPT !.phase = "exited", !.exitCode = 1]
               ELSE [kids EXCEPT !.phase = "running"]
    /\ UNCHANGED <<genVars, runVars, rtVars, causeVars, auxVars, sectionVars,
                   pipe, upload, deployRun>>

\* lines 645-661: a timer fires and spawns its child; the timers expire in
\* index order
SpawnChild ==
    /\ kids.phase = "running"
    /\ \E i \in 1..kids.services :
          /\ kids.child[i] = "scheduled"
          /\ \A j \in 1..(i - 1) : kids.child[j] # "scheduled"
          /\ kids' = [kids EXCEPT !.child[i] = "running"]
    /\ UNCHANGED <<genVars, runVars, rtVars, causeVars, auxVars, sectionVars,
                   pipe, upload, deployRun>>

\* lines 663-676: the close handler of one child, run to completion
ChildCloses ==
    /\ kids.phase = "running"
    /\ \E i \in 1..kids.services, code \in CloseCodes :
          /\ kids.child[i] = "running"
          /\ LET counted == [kids EXCEPT
                                !.child[i] = "closed",
                                !.closeOrder = Append(@, i),
                                !.completedCount = IF code = 0 THEN @ + 1 ELSE @,
                                !.failedCount = IF code = 0 THEN @ ELSE @ + 1]
             IN  kids' = IF SummaryDue(counted.completedCount, counted.failedCount,
                                       counted.services)
                         THEN [counted EXCEPT
                                  !.printed = Append(@,
                                      [successful |-> counted.completedCount,
                                       failed |-> counted.failedCount])]
                         ELSE counted
    /\ UNCHANGED <<genVars, runVars, rtVars, causeVars, auxVars, sectionVars,
                   pipe, upload, deployRun>>

NextServices == ScheduleServices \/ SpawnChild \/ ChildCloses

SpecServices == InitServices /\ [][NextServices]_vars

\* =================================================================== claims
Returned == pc \in {"done", "summarised", "rendered"}

FindingsOfType(t) == { i \in 1..Len(findings) : findings[i].type = t }

\* the classification of the payload's pods
Classification == analyzeRestartTiming(data.podMetrics)
Pods == data.podMetrics.podMetrics

ClassifiedAs(i, flag) ==
    /\ Pods[i].podName \in DOMAIN Classification
    /\ Classification[Pods[i].podName].duringWindow = flag

\* restarts of the pods classified as during-window
DuringTotal ==
    SumSeq([i \in 1..Len(Pods) |-> IF ClassifiedAs(i, TRUE) THEN Pods[i].restarts ELSE 0])

\* restarts of all pods but those classified duringWindow = false
NotBeforeTotal ==
    SumSeq([i \in 1..Len(Pods) |-> IF ClassifiedAs(i, FALSE) THEN 0 ELSE Pods[i].restarts])

\* C1 (as claimed): no processing step of the finding generator moves
\* overallStatus to a lower severity under good < warning < critical.
C1_StatusNeverDecreases ==
    [][Rank(overallStatus') >= Rank(overallStatus)]_vars

\* C2: when the generator has returned, during-window restarts totalling 5 or
\* more give overallStatus critical and 2 or more give at least warning,
\* whatever other findings were triggered.
C2_RestartSeverity ==
    Returned =>
        /\ (DuringTotal >= 5 => overallStatus = "critical")
        /\ (DuringTotal >= 2 => Rank(overallStatus) >= 1)

\* five or more during-window restarts together with a high-latency finding
C2_Witness ==
    /\ Returned
    /\ DuringTotal >= 5
    /\ FindingsOfType("HighLatency") # {}
    /\ FindingsOfType("ResourceUtilization") # {}
    /\ overallStatus = "critical"

\* C3: the restarts of a pod classified duringWindow = false are in no total
\* shown by a restart finding or a summary observation, the pod has no restart
\* line, and they are not in the total compared against the thresholds (only
\* during-window restarts can make the status critical).
C3_BeforeWindowNotCounted ==
    /\ \A i \in FindingsOfType("PodRestarts") \cup FindingsOfType("PodRestartsDetected") :
          findings[i].total <= NotBeforeTotal
    /\ \A i \in FindingsOfType("PodRestartLine") :
          \A j \in 1..Len(Pods) :
             Pods[j].podName = findings[i].podName => ~ClassifiedAs(j, FALSE)
    /\ observations.set => observations.windowRestarts <= NotBeforeTotal
    /\ (Returned /\ overallStatus = "critical") => NotBeforeTotal >= 5

\* a before-window pod with restarts next to a counted during-window pod
C3_Witness ==
    /\ observations.set
    /\ \E i, j \in 1..Len(Pods) :
          /\ ClassifiedAs(i, FALSE) /\ Pods[i].restarts >= 3
          /\ ClassifiedAs(j, TRUE) /\ Pods[j].restarts = 2
    /\ FindingsOfType("PodRestartsDetected") # {}
    /\ overallStatus = "warning"

\* the processing order as the claim states it: every restart finding first
ClaimedOrder(t) ==
    CASE t \in {"PodRestarts", "PodRestartsDetected", "PodRestartLine", "RestartCause"} -> 1
      [] t = "HighLatency" -> 2
      [] t \in {"ErrorsFound", "MostCommonError"} -> 3
      [] t \in {"ApplicationErrors", "MostCommonLogError"} -> 4
      [] t = "Throughput" -> 5
      [] t = "ResourceUtilization" -> 6
      [] t = "AllGood" -> 7

\* the order with the detailed restart findings after resource utilization
EmittedOrder(t) ==
    CASE t = "PodRestarts" -> 1
      [] t = "HighLatency" -> 2
      [] t \in {"ErrorsFound", "MostCommonError"} -> 3
      [] t \in {"ApplicationErrors", "MostCommonLogError"} -> 4
      [] t = "Throughput" -> 5
      [] t = "ResourceUtilization" -> 6
      [] t \in {"PodRestartsDetected", "PodRestartLine", "RestartCause"} -> 7
      [] t = "AllGood" -> 8

\* C4 (as claimed): all restart findings come first, then high latency,
\* endpoint errors, log errors, throughput, resource utilization, affirmative.
C4_ClaimedOrder ==
    \A i, j \in 1..Len(findings) :
        i < j => ClaimedOrder(findings[i].type) <= ClaimedOrder(findings[j].type)

\* C4 (amended): the findings follow the order restart summary, high latency,
\* endpoint errors, log errors, throughput, resource utilization, detailed
\* restart findings (detected line, per-pod lines, cause), affirmative.
C4_EmittedOrder ==
    \A i, j \in 1..Len(findings) :
        i < j => EmittedOrder(findings[i].type) <= EmittedOrder(findings[j].type)

\* a verdict holding a finding of every type that can occur with restarts
C4_Witness ==
    /\ Returned
    /\ \A t \in {"PodRestarts", "HighLatency", "ErrorsFound", "ApplicationErrors",
                 "Throughput", "ResourceUtilization", "PodRestartsDetected",
                 "PodRestartLine", "RestartCause"} : FindingsOfType(t) # {}

\* ---- the classifier, series by series
Classified == rtPos' = rtPos + 1
Usable(series) == series.pod \in PodNames /\ Len(series.pointlist) > 0

MaxOf(S) == CHOOSE x \in S : \A y \in S : y <= x
\* sample i exceeds every sample before it
ExceedsRunningMax(points, i) ==
    i > 1 /\ \A j \in 1..(i - 1) : points[i][2] > points[j][2]
IncreaseIndexes(points) == { i \in 1..Len(points) : ExceedsRunningMax(points, i) }
LastIncreaseTime(points) == points[MaxOf(IncreaseIndexes(points))][1]

\* C5 (as claimed): a series in which some sample after the first exceeds the
\* running maximum is recorded with duringWindow = true and a label formed from
\* the timestamp of the last such sample, for every timestamp value.
C5_IncreaseIsDuringWindow ==
    [][ (Classified /\ Usable(rtCur') /\ IncreaseIndexes(rtCur'.pointlist) # {})
        => /\ rtCur'.pod \in DOMAIN restartTiming'
           /\ restartTiming'[rtCur'.pod] =
                 [exactTime |-> [kind |-> "At",
                                 at |-> FormatSecond(LastIncreaseTime(rtCur'.pointlist))],
                  duringWindow |-> TRUE] ]_vars

\* C6: a series in which no sample exceeds the first value is recorded as
\* duringWindow = false with a "Before <window start>" label when the first
\* value is above 0, and adds nothing to the classification map when the first
\* value is 0; a series of exactly one sample is always such a series.
C6_NoIncreaseIsBeforeOrAbsent ==
    [][ (Classified /\ Usable(rtCur')
         /\ \A i \in 1..Len(rtCur'.pointlist) :
               rtCur'.pointlist[i][2] <= rtCur'.pointlist[1][2])
        => IF rtCur'.pointlist[1][2] > 0
           THEN /\ rtCur'.pod \in DOMAIN restartTiming'
                /\ restartTiming'[rtCur'.pod].duringWindow = FALSE
                /\ restartTiming'[rtCur'.pod].exactTime =
                      [kind |-> "Before", at |-> FormatMinute(rtStart)]
           ELSE restartTiming' = restartTiming ]_vars

\* C6, single samples: a one-sample series never classifies as during-window
C6_Witness ==
    /\ rtPos = rtLen /\ rtLen = 2
    /\ Usable(rtCur) /\ Len(rtCur.pointlist) = 1 /\ rtCur.pointlist[1][2] > 0
    /\ DOMAIN restartTiming = {rtCur.pod}
    /\ restartTiming[rtCur.pod].duringWindow = FALSE

\* ---- the root-cause selector
Selected == causeOut # NoCause
Rule1 == HasHighMemory(causePods, causeData)
Rule2 == causeData.totalLogErrors > 0 /\ TotalRestartsOf(causePods) > 1
Rule3 == TotalRestartsOf(causePods) >= 3
Rule4 == Len(causePods) > 1

\* C7: the selector returns exactly one message, that of the first rule that
\* matches in the order high memory, log errors with more than one restart,
\* three or more restarts, more than one restarted pod, default.
C7_FirstMatchingRuleWins ==
    Selected =>
        /\ causeOut.text \in {OOMText, ErrorsText, FrequentText, MultipleText, MonitorText}
        /\ (Rule1 => causeOut.text = OOMText)
        /\ (~Rule1 /\ Rule2 => causeOut = Cause(ErrorsText, causeData.totalLogErrors))
        /\ (~Rule1 /\ ~Rule2 /\ Rule3 => causeOut.text = FrequentText)
        /\ (~Rule1 /\ ~Rule2 /\ ~Rule3 /\ Rule4 => causeOut.text = MultipleText)
        /\ (~Rule1 /\ ~Rule2 /\ ~Rule3 /\ ~Rule4 => causeOut.text = MonitorText)

\* the first rule wins on an input that matches every rule
C7_Witness ==
    Selected /\ Rule1 /\ Rule2 /\ Rule3 /\ Rule4 /\ causeOut.text = OOMText

\* C8 (as claimed): whenever a restarted pod has peak memory utilization above
\* 90%, the selector returns the OOM message, also when log errors are present.
C8_HighMemoryGivesOOM ==
    (Selected /\ \E i \in 1..Len(causePods) : causePods[i].maxMemoryPct > 90)
        => causeOut.text = OOMText

\* ---- latency and endpoint errors
Metrics == data.metrics
SlowResources ==
    { i \in 1..Len(Metrics) : Metrics[i].p95_latency # NA /\ Metrics[i].p95_latency > 1000 }
SlowAdvice == "Investigate slow endpoints"
InSeq(x, seq) == \E i \in 1..Len(seq) : seq[i] = x

\* C9: with a resource of p95 above 1000 ms the verdict holds exactly one
\* high-latency finding, naming exactly those resources, each with its p95 in
\* seconds to two decimals, plus the slow-endpoint recommendation and a status
\* of at least warning; with none (a missing latency included) it holds no
\* latency finding and no latency recommendation.
C9_HighLatencyFinding ==
    Returned =>
        IF SlowResources # {}
        THEN /\ Cardinality(FindingsOfType("HighLatency")) = 1
             /\ \A k \in FindingsOfType("HighLatency") :
                   LET f == findings[k] IN
                   /\ Len(f.endpointNames) = Cardinality(SlowResources)
                   /\ Len(f.p95Values) = Len(f.endpointNames)
                   /\ \A i \in SlowResources : InSeq(Metrics[i].resource_name, f.endpointNames)
                   /\ \A n \in 1..Len(f.endpointNames) :
                         \E i \in SlowResources :
                            /\ Metrics[i].resource_name = f.endpointNames[n]
                            /\ 10 * f.p95Values[n] - Metrics[i].p95_latency \in -5..4
             /\ InSeq(SlowAdvice, recommendations)
             /\ Rank(overallStatus) >= 1
        ELSE /\ FindingsOfType("HighLatency") = {}
             /\ ~InSeq(SlowAdvice, recommendations)

\* one slow resource reported next to a resource at exactly 1000 ms
C9_Witness ==
    /\ Returned
    /\ Len(Metrics) = 2
    /\ Cardinality(SlowResources) = 1
    /\ \E i \in 1..Len(Metrics) : Metrics[i].p95_latency = 1000
    /\ \E k \in FindingsOfType("HighLatency") : findings[k].p95Values = <<150>>

ErrorResources == { i \in 1..Len(Metrics) : Metrics[i].errors # Dash /\ Metrics[i].errors > 0 }
RatedErrorResources == { i \in ErrorResources : Metrics[i].error_rate > 0 }
ErrorTotal == SumSeq([i \in 1..Len(Metrics) |-> IF i \in ErrorResources THEN Metrics[i].errors ELSE 0])

TotalIsReported ==
    /\ Cardinality(FindingsOfType("ErrorsFound")) = 1
    /\ \A k \in FindingsOfType("ErrorsFound") : findings[k].total = ErrorTotal
    /\ Rank(overallStatus) >= 1

\* a finding for the single resource with the highest rate among those of S
WorstIsReported(S) ==
    /\ Cardinality(FindingsOfType("MostCommonError")) = 1
    /\ \A k \in FindingsOfType("MostCommonError") :
          \E i \in S :
             /\ findings[k].resource = Metrics[i].resource_name
             /\ findings[k].rate = Metrics[i].error_rate
             /\ \A j \in S : Metrics[j].error_rate <= Metrics[i].error_rate

\* C10 (as claimed): with a resource of errorCount > 0 the verdict holds the
\* total error count and a finding for the resource with the highest error
\* rate among the resources with errors, and the status is at least warning.
C10_WorstAlwaysReported ==
    (Returned /\ ErrorResources # {})
        => TotalIsReported /\ WorstIsReported(ErrorResources)

\* C10 (amended): with a resource of errorCount > 0 the verdict holds the total
\* error count and the status is at least warning; the finding for the resource
\* with the highest error rate is emitted when some resource with errors has a
\* rate above 0.00%, and no such finding is emitted otherwise.
C10_WorstReportedWhenRated ==
    (Returned /\ ErrorResources # {})
        => /\ TotalIsReported
           /\ IF RatedErrorResources # {}
              THEN WorstIsReported(ErrorResources)
              ELSE FindingsOfType("MostCommonError") = {}

\* two resources with errors and different rates, the second one the worst
C10_Witness ==
    /\ Returned
    /\ Cardinality(RatedErrorResources) = 2
    /\ \E k \in FindingsOfType("MostCommonError") :
          findings[k].resource = Metrics[2].resource_name /\ findings[k].rate = 400

\* ---------------------------------------------------------------- C11
\* C11: the generator never throws on a payload whose optional sections are
\* missing or partly present: every such call runs on to its return.
C11_PartialPayloadNeverThrows == pc # "threw"

\* ---------------------------------------------------------------- C12
ContinueAdvice == "Continue monitoring performance trends over time"
BaselineAdvice == "Establish this test as a baseline for future regression testing"

\* C12: the affirmative finding and the two generic recommendations are in the
\* verdict exactly when the status is still good after every other finding
\* type; they are absent before that point and with a warning or critical status.
C12_AffirmativeIffGood ==
    LET affirmative == FindingsOfType("AllGood")
        good == overallStatus = "good"
    IN  /\ ~Returned =>
              /\ affirmative = {}
              /\ ~InSeq(ContinueAdvice, recommendations)
              /\ ~InSeq(BaselineAdvice, recommendations)
        /\ Returned =>
              /\ (good <=> Cardinality(affirmative) = 1)
              /\ (~good => affirmative = {})
              /\ (good <=> InSeq(ContinueAdvice, recommendations))
              /\ (good <=> InSeq(BaselineAdvice, recommendations))

C12_Witness ==
    /\ Returned
    /\ overallStatus = "good"
    /\ FindingsOfType("AllGood") # {}
    /\ InSeq(ContinueAdvice, recommendations)

\* ---------------------------------------------------------------- C13
CpuAdvice == "CPU usage peaked above 80%"
MemoryAdvice == "Memory usage peaked above 80%"

SuppliedPercentages ==
    IF data.podMetrics.present /\ data.podMetrics.hasSummary
    THEN data.podMetrics.summaryFields ELSE {}

\* C13: whenever the summary supplies an average or peak CPU or memory
\* percentage the verdict has a resource-utilization finding, and a supplied
\* peak above 80% adds its recommendation and makes the status at least warning.
C13_SuppliedPercentagesReported ==
    Returned =>
        LET cpuPeak == "maxCpuPct" \in SuppliedPercentages
                          /\ data.podMetrics.summary[1] > 80
            memPeak == "maxMemoryPct" \in SuppliedPercentages
                          /\ data.podMetrics.summary[2] > 80
        IN  /\ SuppliedPercentages # {} => FindingsOfType("ResourceUtilization") # {}
            /\ cpuPeak => InSeq(CpuAdvice, recommendations)
            /\ memPeak => InSeq(MemoryAdvice, recommendations)
            /\ cpuPeak \/ memPeak => Rank(overallStatus) >= Rank("warning")

\* ---------------------------------------------------------------- C14
\* C14: a second call of the generator on the same payload returns the verdict
\* the first call returned, and no step of either call alters the payload.
C14_SecondRunSameVerdict ==
    /\ [](runNo = 2 /\ pc \in {"done", "summarised", "rendered"} => Verdict = firstVerdict)
    /\ [][data' = data]_vars

C14_Witness ==
    /\ runNo = 2
    /\ pc = "done"
    /\ Len(firstVerdict.findings) > 1
    /\ firstVerdict.overallStatus = "warning"

\* ---------------------------------------------------------------- C15
Samples == ValuesOf(aggSeries.pointlist)
Extracted == aggOut # NoAggregate
IsPercentile == aggType \in {"p95", "p99"}
Fraction == IF aggType = "p95" THEN 95 ELSE 99

SampleMax == MaxOf({ Samples[i] : i \in 1..Len(Samples) })

\* the zero-based index floor(count * fraction)
ClaimedIndex == (Len(Samples) * Fraction) \div 100

CountBelow(e) == Cardinality({ i \in 1..Len(Samples) : Samples[i] < e })
CountUpTo(e) == Cardinality({ i \in 1..Len(Samples) : Samples[i] <= e })

\* e is the element at zero-based index k of the samples sorted ascending
IsAtSortedIndex(e, k) ==
    /\ \E i \in 1..Len(Samples) : Samples[i] = e
    /\ CountBelow(e) <= k
    /\ k < CountUpTo(e)

\* C15 as claimed: for non-empty samples p95/p99 return the element at index
\* floor(count * fraction) of the ascending order, the index is inside
\* [0, count-1], and the result is a value of the input, at most its maximum.
C15_ResultIsInputValue ==
    Extracted /\ IsPercentile /\ Len(Samples) > 0 =>
        /\ aggOut.outcome = "entry"
        /\ ClaimedIndex \in 0..(Len(Samples) - 1)
        /\ IsAtSortedIndex(aggOut.value, ClaimedIndex)
        /\ aggOut.value <= SampleMax

\* C15 amended: the result is 1000 times the element at that index (seconds
\* turned into milliseconds), so at most 1000 times the maximum.
C15_ResultIsSelectedTimes1000 ==
    Extracted /\ IsPercentile /\ Len(Samples) > 0 =>
        /\ aggOut.outcome = "entry"
        /\ ClaimedIndex \in 0..(Len(Samples) - 1)
        /\ \E e \in 0..(SampleModulus - 1) :
              /\ aggOut.value = e * 1000
              /\ IsAtSortedIndex(e, ClaimedIndex)
              /\ e <= SampleMax

\* a p95 that is not the maximum of its samples
C15_Witness ==
    /\ Extracted /\ aggType = "p95" /\ aggOut.outcome = "entry"
    /\ Len(Samples) > 20
    /\ \E i \in 1..Len(Samples) : Samples[i] * 1000 > aggOut.value
    /\ aggOut.value > 0

\* ---------------------------------------------------------------- C16
\* C16: a series whose samples are empty once nulls are dropped makes the
\* aggregation signal EmptyInputError instead of leaving the resource without
\* a value.
C16_EmptySamplesSignalError ==
    Extracted /\ aggSeries.hasSeries /\ Len(Samples) = 0 =>
        aggOut.outcome = "EmptyInputError"

\* ---------------------------------------------------------------- C17
Built == rowOut # NoRow
WindowSeconds == rowIn.to - rowIn.from

\* C17: with a window of zero or fewer seconds the rate normalization fails
\* with InvalidWindowError and the row gets no rate.
C17_NonPositiveWindowFails ==
    Built /\ WindowSeconds <= 0 => rowOut.outcome = "InvalidWindowError"

\* ---------------------------------------------------------------- C18
Unusable(series) == series.pod \notin PodNames \/ series.pointlist = <<>>

\* C18: a restart series without a parseable entity name (or without any
\* expression) or without data points is skipped on its own: the loop moves on
\* to the next series, the classification so far is kept, nothing is thrown.
C18_UnusableSeriesSkipped ==
    [][Unusable(rtCur') =>
          /\ rtPos' = rtPos + 1
          /\ restartTiming' = restartTiming
          /\ ~rtThrew']_vars

\* ---------------------------------------------------------------- C19
\* C19 as claimed: the row's error rate is exactly errorCount / requests * 100
\* when requests > 0, and 0 otherwise (rates are held in hundredths of a percent).
C19_ErrorRateExact ==
    Built =>
        IF rowIn.requests > 0
        THEN rowOut.row.error_rate * rowIn.requests = rowIn.errorCount * 10000
        ELSE rowOut.row.error_rate = 0

\* C19 amended: the row's error rate is errorCount / requests * 100 rounded to
\* two decimals, so within 0.005 of it, when requests > 0, and 0 otherwise.
C19_ErrorRateRounded ==
    Built =>
        IF rowIn.requests > 0
        THEN LET diff == rowOut.row.error_rate * rowIn.requests
                            - rowIn.errorCount * 10000
             IN  /\ 2 * diff <= rowIn.requests
                 /\ 2 * (0 - diff) <= rowIn.requests
        ELSE rowOut.row.error_rate = 0

\* 2 errors in 3 requests give 66.67
C19_Witness ==
    /\ Built
    /\ rowIn.requests = 3 /\ rowIn.errorCount = 2
    /\ rowOut.row.error_rate = 6667

\* ---------------------------------------------------------------- C20
Settled == retryPhase \in {"returned", "threw"}
AttemptsMade == Len(retryLog) + (IF retryPhase = "returned" THEN 1 ELSE 0)

RetryBoundedBackoff ==
    /\ AttemptsMade <= maxRetries
    /\ Len(retryDelays) <= maxRetries - 1
    /\ Len(retryDelays) > 0 => retryDelays[1] = 1000
    /\ \A k \in 2..Len(retryDelays) : retryDelays[k] = 2 * retryDelays[k - 1]
    /\ retryPhase = "returned" => retryOut.kind = "result"
    /\ retryPhase = "threw" =>
          /\ retryOut.kind = "error"
          /\ AttemptsMade = maxRetries
          /\ retryOut.value = retryLog[Len(retryLog)]
          /\ maxRetries = DefaultMaxRetries => retryDelays = <<1000, 2000>>

\* C20: a retried call is attempted at most maxRetries times (3 by default),
\* the wait before each retry doubles from 1 s (1 s before the second attempt,
\* 2 s before the third), and the loop always ends with a result or an error.
C20_BoundedRetriesTerminate ==
    /\ []RetryBoundedBackoff
    /\ <>Settled

\* three failed attempts with the default limit
C20_Witness ==
    /\ retryPhase = "threw"
    /\ maxRetries = DefaultMaxRetries
    /\ Len(retryLog) = 3
    /\ retryDelays = <<1000, 2000>>

\* ---------------------------------------------------------------- C21
PipeRuns == pipe.phase \in {"running", "exited", "complete"}
FailedSteps == { k \in 1..Len(pipe.codes) : pipe.codes[k] # 0 }

\* C21: the pipeline starts fetch, upload, deploy in that order, each only
\* after the one before it ended with success; a failed step ends the pipeline
\* with a non-zero code and no later step starts; the completion banner is
\* printed only when all three steps succeeded.
C21_StepsInOrder ==
    PipeRuns =>
        /\ Len(pipe.started) <= Len(Steps)
        /\ \A k \in 1..Len(pipe.started) : pipe.started[k] = Steps[k]
        /\ \A k \in 2..Len(pipe.started) : pipe.codes[k - 1] = 0
        /\ \A k \in FailedSteps :
              /\ Len(pipe.started) = k
              /\ pipe.phase = "exited"
              /\ pipe.exitCode # 0
              /\ ~pipe.banner
        /\ pipe.banner <=>
              /\ Len(pipe.codes) = Len(Steps)
              /\ FailedSteps = {}

\* the upload step failed after a successful fetch
C21_Witness ==
    /\ pipe.phase = "exited"
    /\ pipe.started = <<"fetch", "upload">>
    /\ pipe.codes = <<0, 1>>

\* ---------------------------------------------------------------- C25
\* C25: when a step of the pipeline fails, what the steps completed in that
\* run left behind (metric files, the wiki page, staged or committed changes)
\* is undone before the pipeline exits.
C25_FailureRollsBack ==
    pipe.phase = "exited" /\ FailedSteps # {} => pipe.effects = {}

\* ---------------------------------------------------------------- C22
PageSent == upload.phase \in {"attach", "exited"} /\ upload.readable

\* C22: one upload issues exactly one request for the page: a create when no
\* page with the title exists, an update carrying the existing version plus
\* one when it does; a page is never created for a title that exists.
C22_CreateOrUpdateByTitle ==
    PageSent =>
        /\ Len(upload.requests) <= 1
        /\ upload.server.exists =>
              upload.requests
                 = <<[kind |-> "update", version |-> upload.server.version + 1]>>
        /\ ~upload.server.exists =>
              upload.requests = <<[kind |-> "create", version |-> 0]>>

\* ---------------------------------------------------------------- C28
PageFailures == {"lookup", "create", "update"}

\* C28: a failed lookup, create or update reaches the caller: the uploader
\* neither prints its success message nor ends with code 0, so the pipeline
\* does not count the upload step as succeeded.
C28_UploadFailureReachesCaller ==
    upload.phase = "exited" /\ upload.failed \cap PageFailures # {} =>
        /\ "uploaded successfully" \notin upload.logs
        /\ upload.exitCode # 0
        /\ ~StepSucceeded(upload.exitCode)

\* ---------------------------------------------------------------- C23
DeployLog == IF deployRun.phase = "idle" THEN <<>> ELSE deployRun.log
DeployResults == IF deployRun.phase = "idle" THEN <<>> ELSE deployRun.results

\* the passes of the loop made for the k-th command of deploy()
PassesOf(k) == { i \in 1..Len(DeployLog) : DeployLog[i].op = k }

\* C23: a failed command is retried up to 3 times: each retry removes the lock
\* files and runs the git command again, the command succeeds at the first
\* pass that succeeds and fails only after the passes are used up.
C23_RetryRunsCommandAgain ==
    /\ \A i \in 1..Len(DeployLog) :
          /\ DeployLog[i].attempt <= DefaultRetries
          /\ DeployLog[i].attempt > 1 =>
                DeployLog[i].cleaned /\ DeployLog[i].ran
    /\ \A k \in 1..Len(DeployResults) :
          /\ DeployResults[k] =>
                \E i \in PassesOf(k) :
                   /\ DeployLog[i].ok
                   /\ \A j \in PassesOf(k) : j <= i /\ (j < i => ~DeployLog[j].ok)
          /\ ~DeployResults[k] =>
                /\ Cardinality(PassesOf(k)) = DeployOps[k].retries
                /\ \A i \in PassesOf(k) : ~DeployLog[i].ok

\* ---------------------------------------------------------------- C24
\* C24: every git command of the deploy script (reset, add, commit, push) is
\* attempted again after a failure, and the wait before successive attempts
\* grows exponentially.
C24_AllCommandsBackOff ==
    /\ \A k \in 1..Len(DeployResults) :
          ~DeployLog[CHOOSE i \in PassesOf(k) : DeployLog[i].attempt = 1].ok
             => Cardinality(PassesOf(k)) > 1
    /\ \A i \in 2..Len(DeployLog) :
          DeployLog[i].attempt > 2 =>
             DeployLog[i].waited > DeployLog[i - 1].waited

\* ---------------------------------------------------------------- C26
\* the increase of a counter over the window
WindowIncrease(pointlist) == MaxValue(pointlist) - pointlist[1][2]

\* the restarts that happened inside the window, over the pods classified as
\* during-window
RestartsInsideWindow ==
    LET timing == analyzeRestartTiming(data.podMetrics)
        series == data.podMetrics.series
        counted(i) == /\ series[i].pod \in DOMAIN timing
                      /\ timing[series[i].pod].duringWindow
    IN  SumSeq([i \in 1..Len(series) |->
                   IF counted(i) THEN WindowIncrease(series[i].pointlist) ELSE 0])

UnclassifiedRestarted ==
    IF HasPodList(data)
    THEN { i \in 1..Len(data.podMetrics.podMetrics) :
             /\ data.podMetrics.podMetrics[i].restarts > 0
             /\ data.podMetrics.podMetrics[i].podName
                   \notin DOMAIN analyzeRestartTiming(data.podMetrics) }
    ELSE {}

\* the total a restart finding of that type reports, 0 when there is none
FindingTotal(type) ==
    IF \E i \in 1..Len(findings) : findings[i].type = type
    THEN findings[CHOOSE i \in 1..Len(findings) : findings[i].type = type].total
    ELSE 0

RetryOutcomeExact ==
    /\ retryOut.kind # "undefined"
    /\ retryPhase = "returned" =>
          /\ retryOut.kind = "result"
          /\ retryOut.value \in Responses
          /\ attempt = Len(retryLog)
    /\ retryPhase = "threw" =>
          /\ retryOut = [kind |-> "error", value |-> retryLog[Len(retryLog)]]
          /\ Len(retryLog) = maxRetries
          /\ Len(retryDelays) = Len(retryLog) - 1

\* C29: the helper returns the result of the first attempt that succeeds and
\* attempts nothing after it; when every attempt fails it rethrows the error
\* of the last attempt, with no wait after that attempt, and it never resolves
\* to undefined.
C29_FirstSuccessOrLastError ==
    /\ []RetryOutcomeExact
    /\ [][Settled => UNCHANGED retryVars]_vars

\* a success at the second attempt, after one failure and one wait
C29_Witness ==
    /\ retryPhase = "returned"
    /\ Len(retryLog) = 1
    /\ Len(retryDelays) = 1
    /\ retryOut.kind = "result"

\* ---------------------------------------------------------------- C30
AllChildrenClosed == \A i \in 1..kids.services : kids.child[i] = "closed"

\* C30: whatever the order in which the children close, the summary is
\* printed exactly once, only when every child has closed, and the counts it
\* prints add up to the number of services.
C30_SummaryOnceAfterAllClosed ==
    kids.phase = "running" =>
        /\ Len(kids.printed) <= 1
        /\ Len(kids.printed) = 1 <=> AllChildrenClosed
        /\ Len(kids.printed) = 1 =>
              /\ kids.printed[1].successful + kids.printed[1].failed
                    = kids.services
              /\ kids.completedCount + kids.failedCount = kids.services
              /\ Len(kids.closeOrder) = kids.services

\* three children, the second closes first and the first closes last
C30_Witness ==
    /\ kids.phase = "running"
    /\ kids.closeOrder = <<2, 3, 1>>
    /\ kids.failedCount = 1
    /\ Len(kids.printed) = 1

====
